---- MODULE Spec2Model ----
(***************************************************************************)
(* Byte-pair-encoding tokenizer of bpe-tokenizer-tdd.                      *)
(*                                                                         *)
(* A Python str is modelled as a sequence of code points, a list of token  *)
(* ids as a sequence of naturals, a dict as a function whose DOMAIN is the *)
(* set of keys, a tuple (a, b) as <<a, b>>.  A call is modelled as a frame *)
(* (op, arguments, locals, result): the operation acts on the frame and on *)
(* the instance, and Return hands control back to the caller.              *)
(***************************************************************************)
EXTENDS Naturals, Integers, Sequences, FiniteSets, TLC

VARIABLES vocab, inverse_vocab, bpe_merges,
          pc, op, text, vocab_size, allowed, arg_ids, token_ids, pair_arg,
          new_id_arg, result, initial_vocab_size, ntrain

vars == <<vocab, inverse_vocab, bpe_merges,
          pc, op, text, vocab_size, allowed, arg_ids, token_ids, pair_arg,
          new_id_arg, result, initial_vocab_size, ntrain>>

instance == <<vocab, inverse_vocab, bpe_merges>>

-----------------------------------------------------------------------------
(* Program constants *)

BaseSize == 256          \* range(256)
SPACE == 32              \* ord(" ")
MARK == 288              \* ord("Ġ")
LT == 60                 \* ord("<")
BAR == 124               \* ord("|")
GT == 62                 \* ord(">")
ChA == 97                \* ord("a")
ChB == 98                \* ord("b")

(* Bounds of the model *)

MaxUnit == 2             \* a training corpus is a word of at most MaxUnit characters ...
MaxReps == 3             \* ... repeated at most MaxReps times
MaxReUnit == 2           \* the same for the corpus of a repeated train call
MaxReReps == 2
MaxExtra == 3            \* vocab_size ranges over BaseSize .. BaseSize + 1 + MaxExtra
MaxTrains == 2           \* train calls on one instance
MaxPieces == 2           \* pieces (characters or special strings) of a text to encode
MaxChunks == 2           \* chunks of an id list handed to decode / apply_merges
MaxIds == 5              \* longest id list handed to find_freq_pair / replace_pair
MaxId == 3               \* ids of those lists range over 1 .. MaxId

-----------------------------------------------------------------------------
(* Generic helpers for sequences, sets and dicts *)

EmptyDict == [x \in {} |-> 0]

DictSet(d, k, v) == [x \in (DOMAIN d) \cup {k} |-> IF x = k THEN v ELSE d[x]]

Max(S) == CHOOSE m \in S : (m + 1) \notin S /\ \A x \in S : x <= m

Min(S) == CHOOSE m \in S : \A x \in S : m <= x

SeqsUpTo(S, n) == UNION {[1..k -> S] : k \in 0..n}

RECURSIVE Concat(_)
Concat(ss) == IF ss = <<>> THEN <<>> ELSE Head(ss) \o Concat(Tail(ss))

Perms(S) == {f \in [1..Cardinality(S) -> S] : \A i, j \in 1..Cardinality(S) : i # j => f[i] # f[j]}

Ok(v) == [kind |-> "ok", val |-> v]

None == [kind |-> "None", val |-> <<>>]

Err(k) == [kind |-> k, val |-> <<>>]

-----------------------------------------------------------------------------
(* find_freq_pair: Counter(zip(ids, ids[1:])) keeps its keys in first-seen *)
(* order; max(counter, key=counter.get) keeps the first maximum it meets.  *)

Pairs(ids) == [i \in 1..(Len(ids) - 1) |-> <<ids[i], ids[i + 1]>>]

RECURSIVE CounterKeysFrom(_, _)
CounterKeysFrom(ps, acc) ==
    IF ps = <<>> THEN acc
    ELSE CounterKeysFrom(Tail(ps),
                         IF \E i \in 1..Len(acc) : acc[i] = Head(ps)
                         THEN acc ELSE Append(acc, Head(ps)))

CounterKeys(ps) == CounterKeysFrom(ps, <<>>)

CounterGet(ps, k) == Cardinality({i \in 1..Len(ps) : ps[i] = k})

RECURSIVE PyMaxLast(_, _, _)
PyMaxLast(keys, ps, best) ==
    IF keys = <<>> THEN best
    ELSE PyMaxLast(Tail(keys), ps,
                   IF CounterGet(ps, Head(keys)) >= CounterGet(ps, best)
                   THEN Head(keys) ELSE best)

RECURSIVE PyMax(_, _, _)
PyMax(keys, ps, best) ==
    IF keys = <<>> THEN best
    ELSE PyMax(Tail(keys), ps,
               IF CounterGet(ps, Head(keys)) > CounterGet(ps, best)
               THEN Head(keys) ELSE best)

MaxPair(ps) == PyMax(Tail(CounterKeys(ps)), ps, Head(CounterKeys(ps)))

find_freq_pair(ids) ==
    IF Len(ids) < 2 THEN None
    ELSE LET pair_counter == Pairs(ids)
             max_pair == MaxPair(pair_counter)
         IN  IF CounterGet(pair_counter, max_pair) > 1 THEN Ok(max_pair) ELSE None

(* find_freq_pair as pre-filled in the tutorial-4 starter file *)
starter_find_freq_pair(ids) ==
    IF Len(ids) < 2 THEN None
    ELSE LET pairs == Pairs(ids)
         IN  IF Len(pairs) = 0 THEN None ELSE Ok(MaxPair(pairs))

-----------------------------------------------------------------------------
(* replace_pair: the deque loop.  The result is the new list together with *)
(* the caller's list object as the call leaves it (deque(token_ids) copies *)
(* it, so the loop pops from the copy).                                    *)

(* a pass that puts the emitted id back in front of the deque *)
RECURSIVE replace_loop_chained(_, _, _, _)
replace_loop_chained(token_ids_processing, new_token_ids, pair_to_replace, new_id) ==
    IF Len(token_ids_processing) = 0 THEN new_token_ids
    ELSE LET left_id == Head(token_ids_processing)
             rest == Tail(token_ids_processing)
         IN  IF Len(rest) > 0 /\ <<left_id, Head(rest)>> = pair_to_replace
             THEN replace_loop_chained(<<new_id>> \o Tail(rest), new_token_ids,
                                       pair_to_replace, new_id)
             ELSE replace_loop_chained(rest, Append(new_token_ids, left_id),
                                       pair_to_replace, new_id)

RECURSIVE replace_loop(_, _, _, _)
replace_loop(token_ids_processing, new_token_ids, pair_to_replace, new_id) ==
    IF Len(token_ids_processing) = 0 THEN new_token_ids
    ELSE LET left_id == Head(token_ids_processing)
             rest == Tail(token_ids_processing)
         IN  IF Len(rest) > 0 /\ <<left_id, Head(rest)>> = pair_to_replace
             THEN replace_loop(Tail(rest), Append(new_token_ids, new_id),
                               pair_to_replace, new_id)
             ELSE replace_loop(rest, Append(new_token_ids, left_id),
                               pair_to_replace, new_id)

replace_pair(ids, pair_to_replace, new_id) ==
    [ret |-> replace_loop(ids, <<>>, pair_to_replace, new_id), arg |-> ids]

-----------------------------------------------------------------------------
(* apply_merges: one sweep of the deque against the whole merge table *)

RECURSIVE merge_loop(_, _, _)
merge_loop(merges, dq, encoded_ids) ==
    IF Len(dq) >= 2
    THEN LET left_id == Head(dq)
             rest == Tail(dq)
         IN  IF <<left_id, Head(rest)>> \in DOMAIN merges
             THEN merge_loop(merges, Tail(rest),
                             Append(encoded_ids, merges[<<left_id, Head(rest)>>]))
             ELSE merge_loop(merges, rest, Append(encoded_ids, left_id))
    ELSE encoded_ids \o dq

(* sweeps repeated until nothing changes *)
RECURSIVE apply_merges_fixpoint(_, _)
apply_merges_fixpoint(merges, ids) ==
    IF Len(ids) <= 1 THEN ids
    ELSE LET swept == merge_loop(merges, ids, <<>>)
         IN  IF swept = ids THEN ids ELSE apply_merges_fixpoint(merges, swept)

apply_merges(merges, ids) ==
    IF Len(ids) <= 1 THEN ids ELSE merge_loop(merges, ids, <<>>)

-----------------------------------------------------------------------------
(* Strings *)

(* for i, char in enumerate(text): " " becomes the marker unless i == 0,   *)
(* every other character is kept                                           *)
RECURSIVE PreprocessFrom(_, _)
PreprocessFrom(s, i) ==
    IF i > Len(s) THEN <<>>
    ELSE (IF s[i] = SPACE /\ i # 1 THEN <<MARK>> ELSE <<>>)
         \o (IF s[i] # SPACE THEN <<s[i]>> ELSE <<>>)
         \o PreprocessFrom(s, i + 1)

Preprocess(s) == PreprocessFrom(s, 1)

(* [self.inverse_vocab[char] for char in s]; a missing key raises KeyError *)
AllKnown(iv, s) == \A i \in 1..Len(s) : <<s[i]>> \in DOMAIN iv

MapChars(iv, s) == [i \in 1..Len(s) |-> iv[<<s[i]>>]]

-----------------------------------------------------------------------------
(* train (byte-level, tutorial 4) *)

BaseVocab == [i \in 0..(BaseSize - 1) |-> <<i>>]

BaseInverse == [s \in {<<i>> : i \in 0..(BaseSize - 1)} |-> s[1]]

Size(d) == Cardinality(DOMAIN d)

(* no entry made for the marker *)
AddMarkerSkipped(d) == d

AddMarker(d) ==
    IF <<MARK>> \notin DOMAIN d.iv
    THEN [v |-> DictSet(d.v, Size(d.v), <<MARK>>),
          iv |-> DictSet(d.iv, <<MARK>>, Size(d.v))]
    ELSE d

(* for special in allowed_special, in the iteration order of the set *)
RECURSIVE AddSpecials(_, _)
AddSpecials(d, order) ==
    IF order = <<>> THEN d
    ELSE LET special == Head(order)
         IN  AddSpecials(IF special \notin DOMAIN d.iv
                         THEN [v |-> DictSet(d.v, Size(d.v), special),
                               iv |-> DictSet(d.iv, special, Size(d.v))]
                         ELSE d,
                         Tail(order))

Seeded(order) == AddSpecials(AddMarker([v |-> BaseVocab, iv |-> BaseInverse]), order)

Range(f) == {f[i] : i \in DOMAIN f}

TrainStart(t, vs, order) ==
    /\ pc = "idle"
    /\ \E d \in {Seeded(order)}, processed_text \in {Preprocess(t)} :
           /\ vocab' = d.v
           /\ inverse_vocab' = d.iv
           /\ initial_vocab_size' = Size(d.v)
           /\ IF AllKnown(d.iv, processed_text)
              THEN /\ token_ids' = MapChars(d.iv, processed_text)
                   /\ pc' = "loop"
                   /\ result' = None
              ELSE /\ token_ids' = <<>>
                   /\ pc' = "done"
                   /\ result' = Err("KeyError")
    /\ op' = "train"
    /\ text' = t
    /\ vocab_size' = vs
    /\ allowed' = Range(order)
    /\ ntrain' = ntrain + 1
    /\ UNCHANGED <<bpe_merges, arg_ids, pair_arg, new_id_arg>>

LoopConditionInclusive == Size(vocab) <= vocab_size

(* while len(self.vocab) < vocab_size *)
LoopCondition == Size(vocab) < vocab_size

TrainMerge ==
    /\ pc = "loop"
    /\ op = "train"
    /\ LoopCondition
    /\ \E found \in {find_freq_pair(token_ids)} :
           /\ found.kind = "ok"
           /\ \E pair \in {found.val}, pair_id \in {Max(DOMAIN vocab) + 1} :
                  \E merged_token \in {vocab[pair[1]] \o vocab[pair[2]]} :
                      /\ bpe_merges' = DictSet(bpe_merges, pair, pair_id)
                      /\ vocab' = DictSet(vocab, pair_id, merged_token)
                      /\ inverse_vocab' = DictSet(inverse_vocab, merged_token, pair_id)
                      /\ token_ids' = replace_pair(token_ids, pair, pair_id).ret
    /\ UNCHANGED <<pc, op, text, vocab_size, allowed, arg_ids, pair_arg,
                   new_id_arg, result, initial_vocab_size, ntrain>>

TrainExit ==
    /\ pc = "loop"
    /\ op = "train"
    /\ ~(LoopCondition /\ find_freq_pair(token_ids).kind = "ok")
    /\ pc' = "done"
    /\ result' = None
    /\ UNCHANGED <<vocab, inverse_vocab, bpe_merges, op, text, vocab_size,
                   allowed, arg_ids, token_ids, pair_arg, new_id_arg,
                   initial_vocab_size, ntrain>>

(* the call returns: its frame is dropped, the instance stays *)
Return ==
    /\ pc = "done"
    /\ pc' = "idle"
    /\ op' = "none"
    /\ text' = <<>>
    /\ vocab_size' = 0
    /\ allowed' = {}
    /\ arg_ids' = <<>>
    /\ token_ids' = <<>>
    /\ pair_arg' = <<>>
    /\ new_id_arg' = 0
    /\ result' = None
    /\ initial_vocab_size' = 0
    /\ UNCHANGED <<vocab, inverse_vocab, bpe_merges, ntrain>>

-----------------------------------------------------------------------------
(* str.find, "in", startswith, endswith; positions are 0-based as in Python *)

Slice(s, from, to) == SubSeq(s, from + 1, to)          \* s[from:to]

MatchAt(s, sub, p) == p + Len(sub) <= Len(s) /\ Slice(s, p, p + Len(sub)) = sub

Find(s, sub, start) ==
    LET hits == {p \in start..Len(s) : MatchAt(s, sub, p)}
    IN  IF hits = {} THEN -1 ELSE Min(hits)

Occurs(sub, s) == Find(s, sub, 0) # -1

StartsWith(s, pre) == MatchAt(s, pre, 0)

EndsWith(s, suf) == Len(suf) <= Len(s) /\ MatchAt(s, suf, Len(s) - Len(suf))

(* token.startswith("<|") and token.endswith("|>") and token in s *)
SpecialShapedIn(iv, s) ==
    {token \in DOMAIN iv : /\ StartsWith(token, <<LT, BAR>>)
                           /\ EndsWith(token, <<BAR, GT>>)
                           /\ Occurs(token, s)}

-----------------------------------------------------------------------------
(* encode *)

(* for special in allowed_specials: keep the strictly earliest hit *)
RECURSIVE Earliest(_, _, _, _)
Earliest(remaining_text, order, current_pos, found) ==
    IF order = <<>> THEN found
    ELSE LET pos == Find(remaining_text, Head(order), current_pos)
         IN  Earliest(remaining_text, Tail(order), current_pos,
                      IF pos # -1 /\ pos < found.pos
                      THEN [special |-> Head(order), pos |-> pos]
                      ELSE found)

(* the while loop that splits the text around the allowed special tokens; *)
(* found_special = None is the empty string (both are falsy)              *)
RECURSIVE Split(_, _, _, _)
Split(remaining_text, order, current_pos, segments) ==
    IF current_pos < Len(remaining_text)
    THEN LET f == Earliest(remaining_text, order, current_pos,
                           [special |-> <<>>, pos |-> Len(remaining_text)])
         IN  IF f.special # <<>>
             THEN Split(remaining_text, order, f.pos + Len(f.special),
                        segments
                        \o (IF f.pos > current_pos
                            THEN <<Slice(remaining_text, current_pos, f.pos)>>
                            ELSE <<>>)
                        \o <<f.special>>)
             ELSE segments \o <<Slice(remaining_text, current_pos, Len(remaining_text))>>
    ELSE segments

(* characters without a vocabulary entry left out instead of raising *)
EncodeOrdinarySkipping(iv, merges, segment) ==
    LET known == SelectSeq(Preprocess(segment), LAMBDA c : <<c>> \in DOMAIN iv)
    IN  Ok(apply_merges(merges, MapChars(iv, known)))

(* regular text: preprocess, map the characters, apply the merges *)
EncodeOrdinary(iv, merges, segment) ==
    LET processed_text == Preprocess(segment)
    IN  IF AllKnown(iv, processed_text)
        THEN Ok(apply_merges(merges, MapChars(iv, processed_text)))
        ELSE Err("KeyError")

(* special segments encoded character by character like regular text *)
RECURSIVE ProcessSegmentsPlain(_, _, _, _, _)
ProcessSegmentsPlain(iv, merges, allowed_specials, segments, res) ==
    IF segments = <<>> THEN Ok(res)
    ELSE LET r == EncodeOrdinary(iv, merges, Head(segments))
         IN  IF r.kind = "ok"
             THEN ProcessSegmentsPlain(iv, merges, allowed_specials,
                                       Tail(segments), res \o r.val)
             ELSE r

(* for segment in segments *)
RECURSIVE ProcessSegments(_, _, _, _, _)
ProcessSegments(iv, merges, allowed_specials, segments, res) ==
    IF segments = <<>> THEN Ok(res)
    ELSE LET segment == Head(segments)
         IN  IF segment \in allowed_specials
             THEN ProcessSegments(iv, merges, allowed_specials, Tail(segments),
                                  Append(res, iv[segment]))
             ELSE IF SpecialShapedIn(iv, segment) \ allowed_specials # {}
             THEN Err("DisallowedSpecial")
             ELSE LET r == EncodeOrdinary(iv, merges, segment)
                  IN  IF r.kind = "ok"
                      THEN ProcessSegments(iv, merges, allowed_specials,
                                           Tail(segments), res \o r.val)
                      ELSE r

(* allowed_specials is given by the order in which the set is iterated;   *)
(* None and the empty set are both the empty order                        *)
encode(v, iv, merges, t, order) ==
    IF Size(v) = 0 THEN Err("NotTrained")
    ELSE IF Len(t) = 0 THEN Ok(<<>>)
    ELSE IF order # <<>>
    THEN IF \E i \in 1..Len(order) : order[i] \notin DOMAIN iv
         THEN Err("UnknownSpecial")
         ELSE IF t \in Range(order) /\ t \in DOMAIN iv
         THEN Ok(<<iv[t]>>)
         ELSE ProcessSegments(iv, merges, Range(order), Split(t, order, 0, <<>>), <<>>)
    ELSE IF SpecialShapedIn(iv, t) # {}
         THEN Err("DisallowedSpecial")
         ELSE EncodeOrdinary(iv, merges, t)

-----------------------------------------------------------------------------
(* decode *)

ReplaceMark(s) == [i \in 1..Len(s) |-> IF s[i] = MARK THEN SPACE ELSE s[i]]

(* the join without the replacement of the marker *)
decode_joined(v, ids) ==
    IF Len(ids) = 0 THEN Ok(<<>>)
    ELSE IF ~(Range(ids) \subseteq DOMAIN v) THEN Err("UnknownTokenId")
    ELSE Ok(Concat([i \in 1..Len(ids) |-> v[ids[i]]]))

decode(v, ids) ==
    IF Len(ids) = 0 THEN Ok(<<>>)
    ELSE IF ~(Range(ids) \subseteq DOMAIN v) THEN Err("UnknownTokenId")
    ELSE Ok(ReplaceMark(Concat([i \in 1..Len(ids) |-> v[ids[i]]])))

(* an encode that registers the allowed specials it does not know *)
EncodeRegistering(t, order) ==
    /\ pc = "idle"
    /\ pc' = "done"
    /\ op' = "encode"
    /\ text' = t
    /\ allowed' = Range(order)
    /\ \E d \in {AddSpecials([v |-> vocab, iv |-> inverse_vocab], order)} :
           /\ vocab' = d.v
           /\ inverse_vocab' = d.iv
           /\ result' = encode(d.v, d.iv, bpe_merges, t, order)
    /\ UNCHANGED <<bpe_merges, vocab_size, arg_ids, token_ids, pair_arg,
                   new_id_arg, initial_vocab_size, ntrain>>

Encode(t, order) ==
    /\ pc = "idle"
    /\ pc' = "done"
    /\ op' = "encode"
    /\ text' = t
    /\ allowed' = Range(order)
    /\ result' = encode(vocab, inverse_vocab, bpe_merges, t, order)
    /\ UNCHANGED <<vocab, inverse_vocab, bpe_merges, vocab_size, arg_ids,
                   token_ids, pair_arg, new_id_arg, initial_vocab_size, ntrain>>

Decode(ids) ==
    /\ pc = "idle"
    /\ pc' = "done"
    /\ op' = "decode"
    /\ arg_ids' = ids
    /\ token_ids' = ids
    /\ result' = decode(vocab, ids)
    /\ UNCHANGED <<vocab, inverse_vocab, bpe_merges, text, vocab_size, allowed,
                   pair_arg, new_id_arg, initial_vocab_size, ntrain>>

ApplyMerges(ids) ==
    /\ pc = "idle"
    /\ pc' = "done"
    /\ op' = "apply_merges"
    /\ arg_ids' = ids
    /\ token_ids' = ids
    /\ result' = Ok(apply_merges(bpe_merges, ids))
    /\ UNCHANGED <<vocab, inverse_vocab, bpe_merges, text, vocab_size, allowed,
                   pair_arg, new_id_arg, initial_vocab_size, ntrain>>

(* the static list primitives *)
FindFreqPair(ids) ==
    /\ pc = "idle"
    /\ pc' = "done"
    /\ op' = "find_freq_pair"
    /\ arg_ids' = ids
    /\ token_ids' = ids
    /\ result' = find_freq_pair(ids)
    /\ UNCHANGED <<vocab, inverse_vocab, bpe_merges, text, vocab_size, allowed,
                   pair_arg, new_id_arg, initial_vocab_size, ntrain>>

StarterFindFreqPair(ids) ==
    /\ pc = "idle"
    /\ pc' = "done"
    /\ op' = "starter_find_freq_pair"
    /\ arg_ids' = ids
    /\ token_ids' = ids
    /\ result' = starter_find_freq_pair(ids)
    /\ UNCHANGED <<vocab, inverse_vocab, bpe_merges, text, vocab_size, allowed,
                   pair_arg, new_id_arg, initial_vocab_size, ntrain>>

ReplacePair(ids, pair, new_id) ==
    /\ pc = "idle"
    /\ pc' = "done"
    /\ op' = "replace_pair"
    /\ arg_ids' = ids
    /\ pair_arg' = pair
    /\ new_id_arg' = new_id
    /\ \E r \in {replace_pair(ids, pair, new_id)} :
           /\ token_ids' = r.arg
           /\ result' = Ok(r.ret)
    /\ UNCHANGED <<vocab, inverse_vocab, bpe_merges, text, vocab_size, allowed,
                   initial_vocab_size, ntrain>>

-----------------------------------------------------------------------------
(* Inputs *)

CorpusChars == {ChA, ChB, SPACE, MARK}

RECURSIVE Repeat(_, _)
Repeat(u, k) == IF k = 0 THEN <<>> ELSE u \o Repeat(u, k - 1)

(* the first code point after range(256): a character without a base id *)
ChOut == BaseSize + 1

(* corpora with a character that is neither in range(256) nor the marker *)
OutCorpora == {Repeat(u, k) : u \in {<<ChOut>>, <<ChA, ChOut>>}, k \in 1..MaxReps}

Corpora ==
    {Repeat(u, k) : u \in SeqsUpTo(CorpusChars, MaxUnit), k \in 1..MaxReps} \cup OutCorpora

ReCorpora == {Repeat(u, k) : u \in SeqsUpTo(CorpusChars, MaxReUnit), k \in 1..MaxReReps}

SpecialStrs == {<<ChA, ChB>>, <<LT, BAR, ChA, BAR, GT>>}

VocabSizes == BaseSize..(BaseSize + 1 + MaxExtra)

Orders == UNION {Perms(S) : S \in SUBSET SpecialStrs}

(* for train also a special token that is a character of the corpora *)
TrainOrders == Orders \cup {<<<<ChA>>>>}

(* __init__ *)
Init ==
    /\ vocab = EmptyDict
    /\ inverse_vocab = EmptyDict
    /\ bpe_merges = EmptyDict
    /\ pc = "idle"
    /\ op = "none"
    /\ text = <<>>
    /\ vocab_size = 0
    /\ allowed = {}
    /\ arg_ids = <<>>
    /\ token_ids = <<>>
    /\ pair_arg = <<>>
    /\ new_id_arg = 0
    /\ result = None
    /\ initial_vocab_size = 0
    /\ ntrain = 0

Pieces == {<<ChA>>, <<ChB>>, <<SPACE>>, <<MARK>>, <<ChOut>>, <<LT, BAR, GT>>} \cup SpecialStrs

Texts == {Concat(ps) : ps \in SeqsUpTo(Pieces, MaxPieces)}

IdChunks == {<<ChA>>, <<ChB>>, <<ChA, ChB>>, <<BaseSize>>, <<BaseSize + 1>>, <<BaseSize + 2>>}

IdLists == {Concat(cs) : cs \in SeqsUpTo(IdChunks, MaxChunks)}

SmallIdLists == SeqsUpTo(1..MaxId, MaxIds)

(* Training of a fresh instance *)

Train ==
    /\ pc = "idle"
    /\ ntrain = 0
    /\ \E t \in Corpora, vs \in VocabSizes, order \in TrainOrders : TrainStart(t, vs, order)

Next ==
    \/ Train
    \/ TrainMerge
    \/ TrainExit
    \/ Return

Spec == Init /\ [][Next]_vars

(* Use of an instance: trained once on a corpus of a small family, then    *)
(* encode, decode and apply_merges calls in any order                      *)

UseUnits == {<<>>, <<ChA>>, <<ChA, ChB>>, <<ChA, SPACE>>, <<LT, BAR, GT>>}

UseCorpora == {Repeat(u, MaxReps) : u \in UseUnits}

TrainFew ==
    /\ pc = "idle"
    /\ ntrain = 0
    /\ \E t \in UseCorpora, vs \in VocabSizes, order \in Orders : TrainStart(t, vs, order)

CallEncode ==
    /\ pc = "idle"
    /\ \E t \in Texts, order \in Orders : Encode(t, order)

CallDecode ==
    /\ pc = "idle"
    /\ \E ids \in IdLists : Decode(ids)

CallApplyMerges ==
    /\ pc = "idle"
    /\ \E ids \in IdLists : ApplyMerges(ids)

NextUse ==
    \/ TrainFew
    \/ TrainMerge
    \/ TrainExit
    \/ CallEncode
    \/ CallDecode
    \/ CallApplyMerges
    \/ Return

SpecUse == Init /\ [][NextUse]_vars

(* The list primitives on their own *)

CallFindFreqPair ==
    /\ pc = "idle"
    /\ \E ids \in SmallIdLists : FindFreqPair(ids)

CallStarterFindFreqPair ==
    /\ pc = "idle"
    /\ \E ids \in SmallIdLists : StarterFindFreqPair(ids)

CallReplacePair ==
    /\ pc = "idle"
    /\ \E ids \in SmallIdLists, a \in 1..MaxId, b \in 1..MaxId :
           \E new_id \in {a, MaxId + 1} : ReplacePair(ids, <<a, b>>, new_id)

NextPrim ==
    \/ CallFindFreqPair
    \/ CallStarterFindFreqPair
    \/ CallReplacePair
    \/ Return

SpecPrim == Init /\ [][NextPrim]_vars

(* Repeated train calls on one instance *)

TrainAgain ==
    /\ pc = "idle"
    /\ ntrain < MaxTrains
    /\ \E t \in ReCorpora, vs \in VocabSizes, order \in Orders : TrainStart(t, vs, order)

NextRe ==
    \/ TrainAgain
    \/ TrainMerge
    \/ TrainExit
    \/ Return

SpecRe == Init /\ [][NextRe]_vars

(* Use of an instance that is trained more than once: train calls on a few *)
(* corpora without special tokens, and encode, decode and apply_merges     *)
(* calls between and after them                                            *)

ReUseCorpora == {Repeat(<<ChA>>, MaxReps), Repeat(<<ChA, ChB>>, MaxReps)}

TrainAgainFew ==
    /\ pc = "idle"
    /\ ntrain < MaxTrains
    /\ \E t \in ReUseCorpora, vs \in VocabSizes : TrainStart(t, vs, <<>>)

NextReUse ==
    \/ TrainAgainFew
    \/ TrainMerge
    \/ TrainExit
    \/ CallEncode
    \/ CallDecode
    \/ CallApplyMerges
    \/ Return

SpecReUse == Init /\ [][NextReUse]_vars

-----------------------------------------------------------------------------
(* train (character-level, tutorials 2 and 3) *)

(* sorted(list(set(text))) *)
RECURSIVE Sorted(_)
Sorted(S) == IF S = {} THEN <<>> ELSE <<Min(S)>> \o Sorted(S \ {Min(S)})

(* {i: ch for i, ch in enumerate(unique_char)} and its inverse *)
CharVocab(unique_char) == [i \in 0..(Len(unique_char) - 1) |-> <<unique_char[i + 1]>>]

CharInverse(unique_char) ==
    [s \in {<<unique_char[i]>> : i \in 1..Len(unique_char)} |->
        (CHOOSE i \in 1..Len(unique_char) : unique_char[i] = s[1]) - 1]

CharTrainStart(t, vs, order) ==
    /\ pc = "idle"
    /\ \E unique_char \in {Sorted(Range(t))} :
           /\ vocab' = CharVocab(unique_char)
           /\ inverse_vocab' = CharInverse(unique_char)
           /\ initial_vocab_size' = Len(unique_char)
           /\ token_ids' = MapChars(CharInverse(unique_char), t)
    /\ pc' = "loop"
    /\ result' = None
    /\ op' = "char_train"
    /\ text' = t
    /\ vocab_size' = vs
    /\ allowed' = Range(order)
    /\ ntrain' = ntrain + 1
    /\ UNCHANGED <<bpe_merges, arg_ids, pair_arg, new_id_arg>>

CharTrainMerge ==
    /\ pc = "loop"
    /\ op = "char_train"
    /\ LoopCondition
    /\ \E found \in {find_freq_pair(token_ids)} :
           /\ found.kind = "ok"
           /\ \E pair \in {found.val}, pair_id \in {Max(DOMAIN vocab) + 1} :
                  \E merged_token \in {vocab[pair[1]] \o vocab[pair[2]]} :
                      /\ bpe_merges' = DictSet(bpe_merges, pair, pair_id)
                      /\ vocab' = DictSet(vocab, pair_id, merged_token)
                      /\ inverse_vocab' = DictSet(inverse_vocab, merged_token, pair_id)
                      /\ token_ids' = replace_pair(token_ids, pair, pair_id).ret
    /\ UNCHANGED <<pc, op, text, vocab_size, allowed, arg_ids, pair_arg,
                   new_id_arg, result, initial_vocab_size, ntrain>>

(* for special in allowed_special: new_id = max(self.vocab) + 1, after the *)
(* merge loop; the dictionary is not empty                                 *)
RECURSIVE AppendSpecials(_, _)
AppendSpecials(d, order) ==
    IF order = <<>> THEN d
    ELSE LET new_id == Max(DOMAIN d.v) + 1
         IN  AppendSpecials([v |-> DictSet(d.v, new_id, Head(order)),
                             iv |-> DictSet(d.iv, Head(order), new_id)],
                            Tail(order))

(* the loop has ended; the special tokens are appended in the iteration    *)
(* order of the set, and max() of an empty vocabulary raises ValueError    *)
CharTrainExit ==
    /\ pc = "loop"
    /\ op = "char_train"
    /\ ~(LoopCondition /\ find_freq_pair(token_ids).kind = "ok")
    /\ pc' = "done"
    /\ IF allowed # {} /\ Size(vocab) = 0
       THEN /\ result' = Err("ValueError")
            /\ UNCHANGED <<vocab, inverse_vocab>>
       ELSE /\ result' = None
            /\ \E order \in Perms(allowed) :
                   \E d \in {AppendSpecials([v |-> vocab, iv |-> inverse_vocab], order)} :
                       /\ vocab' = d.v
                       /\ inverse_vocab' = d.iv
    /\ UNCHANGED <<bpe_merges, op, text, vocab_size, allowed, arg_ids, token_ids,
                   pair_arg, new_id_arg, initial_vocab_size, ntrain>>

CharVocabSizes == 0..(MaxUnit + MaxExtra)

CharTrain ==
    /\ pc = "idle"
    /\ ntrain = 0
    /\ \E t \in Corpora, vs \in CharVocabSizes, order \in TrainOrders :
           CharTrainStart(t, vs, order)

NextChar ==
    \/ CharTrain
    \/ CharTrainMerge
    \/ CharTrainExit
    \/ Return

SpecChar == Init /\ [][NextChar]_vars

-----------------------------------------------------------------------------
(* Properties *)

TrainReturned == pc = "done" /\ op = "train" /\ result.kind = "None"

Returned(o) == pc = "done" /\ op = o

MinInt(a, b) == IF a <= b THEN a ELSE b

MaxInt(a, b) == IF a >= b THEN a ELSE b

(* C1: round trip.  For a text encoded without allowed specials on a       *)
(* trained instance, all of whose characters have a vocabulary entry and   *)
(* which contains no special-token string, decode(encode(text)) == text.   *)
C1_RoundTrip ==
    (/\ Returned("encode")
     /\ allowed = {}
     /\ ntrain >= 1
     /\ result.kind = "ok"
     /\ AllKnown(inverse_vocab, text)
     /\ \A sp \in SpecialStrs : ~Occurs(sp, text))
    => decode(vocab, result.val) = Ok(text)

(* C2: bijection.  After train returns, vocab and inverse_vocab have the   *)
(* same number of entries and are exact inverses of one another.           *)
C2_Bijection ==
    TrainReturned =>
        /\ Size(vocab) = Size(inverse_vocab)
        /\ \A tok \in DOMAIN inverse_vocab :
               inverse_vocab[tok] \in DOMAIN vocab /\ vocab[inverse_vocab[tok]] = tok
        /\ \A i \in DOMAIN vocab :
               vocab[i] \in DOMAIN inverse_vocab /\ inverse_vocab[vocab[i]] = i

(* the number of merges a training without size limit would make *)
RECURSIVE MergesAvailable(_, _)
MergesAvailable(ids, next_id) ==
    LET found == find_freq_pair(ids)
    IN  IF found.kind = "None" THEN 0
        ELSE 1 + MergesAvailable(replace_pair(ids, found.val, next_id).ret, next_id + 1)

AvailableForCorpus ==
    MergesAvailable(MapChars(inverse_vocab, Preprocess(text)), initial_vocab_size)

C4_MergeTable ==
    (op = "train" /\ pc \in {"loop", "done"}) =>
        \A p \in DOMAIN bpe_merges :
            /\ p[1] \in DOMAIN vocab
            /\ p[2] \in DOMAIN vocab
            /\ bpe_merges[p] \in DOMAIN vocab
            /\ vocab[bpe_merges[p]] = vocab[p[1]] \o vocab[p[2]]
            /\ bpe_merges[p] > p[1]
            /\ bpe_merges[p] > p[2]

(* C5: after train returns, len(vocab) <= vocab_size.                      *)
C5_VocabBound == TrainReturned => Size(vocab) <= vocab_size

(* occurrences of a pair among the adjacent pairs, overlapping ones counted *)
Positions(ids, p) == {i \in 1..(Len(ids) - 1) : <<ids[i], ids[i + 1]>> = p}

CountOf(ids, p) == Cardinality(Positions(ids, p))

AdjacentPairs(ids) == {<<ids[i], ids[i + 1]>> : i \in 1..(Len(ids) - 1)}

(* C6: when find_freq_pair returns a pair, the pair has the maximum number *)
(* of occurrences among all adjacent pairs, and among the pairs with that  *)
(* count it is the one whose first occurrence is earliest.                 *)
C6_TieBreak ==
    (Returned("find_freq_pair") /\ result.kind = "ok") =>
        /\ result.val \in AdjacentPairs(arg_ids)
        /\ \A q \in AdjacentPairs(arg_ids) :
               /\ CountOf(arg_ids, q) <= CountOf(arg_ids, result.val)
               /\ (CountOf(arg_ids, q) = CountOf(arg_ids, result.val) /\ q # result.val)
                      => Min(Positions(arg_ids, result.val)) < Min(Positions(arg_ids, q))

(* a pair returned although another pair occurs as often *)
C6_Witness ==
    /\ Returned("find_freq_pair")
    /\ result.kind = "ok"
    /\ \E q \in AdjacentPairs(arg_ids) :
           q # result.val /\ CountOf(arg_ids, q) = CountOf(arg_ids, result.val)

(* C7: every find_freq_pair of the repository returns None exactly when    *)
(* the sequence has fewer than 2 elements or no adjacent pair occurs more  *)
(* than once.                                                              *)
C7_NoneIff ==
    (pc = "done" /\ op \in {"find_freq_pair", "starter_find_freq_pair"}) =>
        (result.kind = "None"
            <=> (Len(arg_ids) < 2
                 \/ \A q \in AdjacentPairs(arg_ids) : CountOf(arg_ids, q) <= 1))

(* the single greedy left-to-right pass, by position *)
RECURSIVE GreedyPass(_, _, _, _)
GreedyPass(ids, i, pair, new_id) ==
    IF i > Len(ids) THEN <<>>
    ELSE IF i < Len(ids) /\ <<ids[i], ids[i + 1]>> = pair
    THEN <<new_id>> \o GreedyPass(ids, i + 2, pair, new_id)
    ELSE <<ids[i]>> \o GreedyPass(ids, i + 1, pair, new_id)

(* C8: replace_pair equals the single greedy left-to-right pass, leaves    *)
(* its input list as it was, returns the input when the pair never occurs, *)
(* and turns [x, x, x] with pair (x, x) into [new_id, x].                  *)
C8_ReplacePair ==
    Returned("replace_pair") =>
        /\ result.val = GreedyPass(arg_ids, 1, pair_arg, new_id_arg)
        /\ token_ids = arg_ids
        /\ (pair_arg \notin AdjacentPairs(arg_ids) => result.val = arg_ids)
        /\ (Len(arg_ids) = 3 /\ pair_arg[1] = pair_arg[2]
            /\ \A i \in 1..3 : arg_ids[i] = pair_arg[1])
               => result.val = <<new_id_arg, pair_arg[1]>>

(* new_id equal to pair[0] was emitted in front of pair[1] and left alone *)
C8_Witness ==
    /\ Returned("replace_pair")
    /\ new_id_arg = pair_arg[1]
    /\ Len(result.val) < Len(arg_ids)
    /\ pair_arg \in AdjacentPairs(result.val)

(* one greedy left-to-right sweep against the whole merge table, by position *)
RECURSIVE Sweep(_, _, _)
Sweep(merges, ids, i) ==
    IF i > Len(ids) THEN <<>>
    ELSE IF i < Len(ids) /\ <<ids[i], ids[i + 1]>> \in DOMAIN merges
    THEN <<merges[<<ids[i], ids[i + 1]>>]>> \o Sweep(merges, ids, i + 2)
    ELSE <<ids[i]>> \o Sweep(merges, ids, i + 1)

RECURSIVE ScanSegments(_, _, _, _, _)
ScanSegments(t, specials, p, cur, out) ==
    LET flushed == IF cur = <<>> THEN out ELSE Append(out, [special |-> FALSE, str |-> cur])
    IN  IF p >= Len(t) THEN flushed
        ELSE IF \E sp \in specials : MatchAt(t, sp, p)
        THEN LET sp == CHOOSE sp \in specials : MatchAt(t, sp, p)
             IN  ScanSegments(t, specials, p + Len(sp), <<>>,
                              Append(flushed, [special |-> TRUE, str |-> sp]))
        ELSE ScanSegments(t, specials, p + 1, Append(cur, t[p + 1]), out)

SegmentIds(seg) ==
    IF seg.special THEN <<inverse_vocab[seg.str]>>
    ELSE apply_merges(bpe_merges, MapChars(inverse_vocab, Preprocess(seg.str)))

ExpectedIds(segs) == Concat([i \in 1..Len(segs) |-> SegmentIds(segs[i])])

(* C10: with allowed specials, a successful encode returns the in-order    *)
(* concatenation of apply_merges of the character ids of each maximal      *)
(* ordinary segment and of one id inverse_vocab[special] per special-token *)
(* occurrence; encode(s, {s}) == [inverse_vocab[s]] and decodes to s.      *)
C10_Segmentation ==
    (Returned("encode") /\ allowed # {} /\ result.kind = "ok") =>
        /\ result.val = ExpectedIds(ScanSegments(text, allowed, 0, <<>>, <<>>))
        /\ text \in allowed =>
               /\ result.val = <<inverse_vocab[text]>>
               /\ decode(vocab, result.val) = Ok(text)

(* merged ordinary text next to an allowed special token *)
C10_Witness ==
    /\ Returned("encode")
    /\ allowed # {}
    /\ result.kind = "ok"
    /\ LET segs == ScanSegments(text, allowed, 0, <<>>, <<>>)
       IN  /\ \E i \in 1..Len(segs) : segs[i].special
           /\ \E i \in 1..Len(segs) :
                  /\ ~segs[i].special
                  /\ SPACE \notin Range(segs[i].str)
                  /\ Len(SegmentIds(segs[i])) < Len(segs[i].str)

(* the strings of the returned ids, joined without reversing the marker *)
Spelled(ids) == Concat([i \in 1..Len(ids) |-> vocab[ids[i]]])

(* the text with every space but one at the very start turned into 'Ġ' *)
Marked(t) ==
    [i \in 1..Len(t) |-> IF t[i] = SPACE /\ i # 1 THEN MARK ELSE t[i]]

(* C11: boundary-marker preprocessing in encode.  A space stays a literal  *)
(* space only as the very first character of the full text, every other    *)
(* space becomes 'Ġ', also at the start of an ordinary segment after a     *)
(* special token, and no space is lost: for a text without a literal 'Ġ'   *)
(* the ids returned spell the text with exactly these substitutions.       *)
C11_Preprocessing ==
    (/\ Returned("encode")
     /\ ntrain >= 1
     /\ result.kind = "ok"
     /\ MARK \notin Range(text))
    => Spelled(result.val) = Marked(text)

(* the characters of the strings of the ids, one by one, a 'Ġ' read as a space *)
RECURSIVE Unmarked(_, _, _)
Unmarked(ids, i, k) ==
    IF i > Len(ids) THEN <<>>
    ELSE IF k > Len(vocab[ids[i]]) THEN Unmarked(ids, i + 1, 1)
    ELSE <<IF vocab[ids[i]][k] = MARK THEN SPACE ELSE vocab[ids[i]][k]>>
         \o Unmarked(ids, i, k + 1)

(* C12: decode on a trained instance returns the empty string for the      *)
(* empty sequence, fails with the unknown-token-id error exactly when some *)
(* id is not a key of vocab, and otherwise returns the strings of the ids  *)
(* joined in order with every 'Ġ' replaced by a space.                     *)
C12_Decode ==
    (Returned("decode") /\ ntrain >= 1) =>
        /\ arg_ids = <<>> => result = Ok(<<>>)
        /\ result.kind = "UnknownTokenId"
               <=> \E i \in 1..Len(arg_ids) : arg_ids[i] \notin DOMAIN vocab
        /\ (\A i \in 1..Len(arg_ids) : arg_ids[i] \in DOMAIN vocab)
               => result = Ok(Unmarked(arg_ids, 1, 1))

(* a merged token that holds the marker decoded next to another token *)
C12_Witness ==
    /\ Returned("decode")
    /\ ntrain >= 1
    /\ result.kind = "ok"
    /\ Len(arg_ids) >= 2
    /\ \E i \in 1..Len(arg_ids) :
           arg_ids[i] \in Range(bpe_merges) /\ MARK \in Range(vocab[arg_ids[i]])

(* C13: on an untrained instance (empty vocabulary) encode and decode fail *)
(* with the not-trained error for every argument, encode("") and           *)
(* decode([]) included; on a trained instance encode("") returns [].       *)
C13_NotTrained ==
    /\ (pc = "done" /\ op \in {"encode", "decode"} /\ Size(vocab) = 0)
           => result.kind = "NotTrained"
    /\ (Returned("encode") /\ Size(vocab) > 0 /\ text = <<>>)
           => result = Ok(<<>>)

(* C14: on a trained instance encode fails with the unknown-special-token  *)
(* error whenever allowed_specials holds a string that is not in the       *)
(* vocabulary, whatever the text, the empty text included.                 *)
C14_UnknownSpecial ==
    (/\ Returned("encode")
     /\ Size(vocab) > 0
     /\ \E special \in allowed : special \notin DOMAIN inverse_vocab)
    => result.kind = "UnknownSpecial"

(* the special tokens train has put into the vocabulary: the entries after *)
(* the base alphabet and the marker that no merge has made                 *)
Registered ==
    {vocab[i] : i \in {j \in DOMAIN vocab : j > BaseSize /\ j \notin Range(bpe_merges)}}

OrdinarySegments(t, specials) ==
    LET segs == ScanSegments(t, specials, 0, <<>>, <<>>)
    IN  {segs[i].str : i \in {j \in 1..Len(segs) : ~segs[j].special}}

(* C15: encode fails with the disallowed-special-token error whenever a    *)
(* special token that train registered, whatever its shape, occurs in an   *)
(* ordinary segment of the text and is not in allowed_specials.            *)
C15_Disallowed ==
    (/\ Returned("encode")
     /\ ntrain >= 1
     /\ allowed \subseteq DOMAIN inverse_vocab
     /\ AllKnown(inverse_vocab, text)
     /\ \E special \in Registered \ allowed :
            \E segment \in OrdinarySegments(text, allowed) : Occurs(special, segment))
    => result.kind = "DisallowedSpecial"

(* an ordinary segment holds a character that has no vocabulary entry *)
UnknownCharIn(t, specials) ==
    \E segment \in OrdinarySegments(t, specials) :
        \E i \in 1..Len(segment) :
            segment[i] # SPACE /\ <<segment[i]>> \notin DOMAIN inverse_vocab

C18_BaseAlphabet ==
    TrainReturned =>
        /\ \A i \in 0..(BaseSize - 1) : i \in DOMAIN vocab /\ vocab[i] = <<i>>
        /\ {i \in DOMAIN vocab : vocab[i] = <<MARK>>} = {BaseSize}
        /\ <<MARK>> \in DOMAIN inverse_vocab
        /\ inverse_vocab[<<MARK>>] = BaseSize

(* a training with merges on a corpus that holds the marker literally *)
C18_Witness ==
    /\ TrainReturned
    /\ MARK \in Range(text)
    /\ Size(bpe_merges) >= 1

(* the number of vocabulary entries of the base range: the 256 characters  *)
(* and the marker (byte-level), the characters of the corpus (character-   *)
(* level)                                                                  *)
BaseRange == IF op = "train" THEN BaseSize + 1 ELSE Cardinality(Range(text))

(* C19: special tokens are inserted after the base alphabet and before     *)
(* merge learning, in every train of the repository: after train the ids   *)
(* of the special tokens are the contiguous range directly after the base  *)
(* range, and every merge-created id is greater than every special id.     *)
C19_SpecialOrder ==
    (pc = "done" /\ op \in {"train", "char_train"} /\ result.kind = "None" /\ ntrain = 1) =>
        /\ allowed \subseteq DOMAIN inverse_vocab
        /\ {inverse_vocab[special] : special \in allowed}
               = BaseRange..(BaseRange + Cardinality(allowed) - 1)
        /\ \A m \in Range(bpe_merges), special \in allowed : m > inverse_vocab[special]

(* the keys of bpe_merges in creation order (merge ids grow), each pair    *)
(* given by the strings of its two ids                                     *)
RECURSIVE MergedPairs(_)
MergedPairs(merges) ==
    IF DOMAIN merges = {} THEN <<>>
    ELSE LET first == CHOOSE p \in DOMAIN merges :
                          \A q \in DOMAIN merges : merges[p] <= merges[q]
         IN  <<<<vocab[first[1]], vocab[first[2]]>>>>
             \o MergedPairs([q \in DOMAIN merges \ {first} |-> merges[q]])

(* the pairs a training without special tokens merges, in order *)
RECURSIVE PairsWithoutSpecials(_, _, _)
PairsWithoutSpecials(ids, v, target) ==
    LET found == find_freq_pair(ids)
    IN  IF Size(v) < target /\ found.kind = "ok"
        THEN LET pair == found.val
                 pair_id == Max(DOMAIN v) + 1
             IN  <<<<v[pair[1]], v[pair[2]]>>>>
                 \o PairsWithoutSpecials(replace_pair(ids, pair, pair_id).ret,
                                         DictSet(v, pair_id, v[pair[1]] \o v[pair[2]]),
                                         target)
        ELSE <<>>

(* C20: special tokens do not consume a merge slot: for a fixed corpus and *)
(* a fixed target size, the sequence of pairs merged by train is the same  *)
(* with any set of special tokens as with none.                            *)
C20_MergeSlots ==
    (TrainReturned /\ ntrain = 1) =>
        MergedPairs(bpe_merges)
            = PairsWithoutSpecials(MapChars(Seeded(<<>>).iv, Preprocess(text)),
                                   Seeded(<<>>).v, vocab_size)

(* the strings a training on the empty corpus has to leave in the          *)
(* vocabulary: the base alphabet and the marker (byte-level) or nothing    *)
(* (character-level), and the given special tokens                         *)
EmptyCorpusStrings ==
    (IF op = "train" THEN {<<i>> : i \in 0..(BaseSize - 1)} \cup {<<MARK>>} ELSE {})
        \cup allowed

(* C21: training on the empty corpus, with any target size and any special *)
(* tokens, returns without failing, leaves a vocabulary of exactly the     *)
(* base entries, the marker and the given special tokens (character-level: *)
(* exactly the special tokens), and a merge table with no entry.           *)
C21_EmptyCorpus ==
    (pc = "done" /\ op \in {"train", "char_train"} /\ text = <<>> /\ ntrain = 1) =>
        /\ result.kind = "None"
        /\ Range(vocab) = EmptyCorpusStrings
        /\ Size(vocab) = Cardinality(EmptyCorpusStrings)
        /\ DOMAIN inverse_vocab = EmptyCorpusStrings
        /\ Size(bpe_merges) = 0

(* C22: train always terminates.  The merge loop runs at most              *)
(* max(0, target - initial_vocab_size) iterations (one merge rule each),   *)
(* it is left as soon as find_freq_pair returns None, and train returns    *)
(* normally for every corpus, one with characters outside code points      *)
(* 0..255 included.                                                        *)
C22_Terminates ==
    (op = "train" /\ ntrain = 1) =>
        /\ Size(bpe_merges) <= MaxInt(0, vocab_size - initial_vocab_size)
        /\ pc = "done" =>
               /\ result.kind = "None"
               /\ ~LoopCondition \/ find_freq_pair(token_ids).kind = "None"

(* C23: training and encoding are deterministic.  A training of a fresh    *)
(* instance ends with the same dictionaries whatever order the set of      *)
(* special tokens is iterated in: the entries made before the merge loop   *)
(* are those of every iteration order; and encode returns the same result  *)
(* whatever order allowed_specials is iterated in.                         *)
C23_Deterministic ==
    /\ (TrainReturned /\ ntrain = 1) =>
           \A order \in Perms(allowed) :
               /\ \A i \in DOMAIN Seeded(order).v :
                      i \in DOMAIN vocab /\ vocab[i] = Seeded(order).v[i]
               /\ \A special \in allowed :
                      vocab[Seeded(order).iv[special]] = special
    /\ Returned("encode") =>
           \A order \in Perms(allowed) :
               encode(vocab, inverse_vocab, bpe_merges, text, order) = result

(* the id a corpus character has when the dictionary is first built *)
OriginalId(c) ==
    IF op = "train" THEN Seeded(<<>>).iv[<<c>>]
    ELSE CharInverse(Sorted(Range(text)))[<<c>>]

(* C24: train registers every special token, in the character-level and in *)
(* the byte-level train: after train returns every given special token s   *)
(* is a key of inverse_vocab with vocab[inverse_vocab[s]] == s, no other   *)
(* string has its id, and every character of the corpus is still a key of  *)
(* inverse_vocab with its original id.                                     *)
C24_Registered ==
    (pc = "done" /\ op \in {"train", "char_train"} /\ result.kind = "None" /\ ntrain = 1) =>
        /\ \A special \in allowed :
               /\ special \in DOMAIN inverse_vocab
               /\ inverse_vocab[special] \in DOMAIN vocab
               /\ vocab[inverse_vocab[special]] = special
               /\ \A other \in DOMAIN inverse_vocab :
                      inverse_vocab[other] = inverse_vocab[special] => other = special
        /\ \A c \in Range(Preprocess(text)) :
               op = "train" =>
                   <<c>> \in DOMAIN inverse_vocab /\ inverse_vocab[<<c>>] = OriginalId(c)
        /\ \A c \in Range(text) :
               op = "char_train" =>
                   <<c>> \in DOMAIN inverse_vocab /\ inverse_vocab[<<c>>] = OriginalId(c)

(* C25: apply_merges applies all possible merges: in its result no two     *)
(* adjacent ids form a key of bpe_merges, for every trained merge table    *)
(* and every input sequence.                                               *)
C25_NoMergeLeft ==
    Returned("apply_merges") =>
        AdjacentPairs(result.val) \cap DOMAIN bpe_merges = {}

(* C26: apply_merges preserves the text.  For every trained instance and   *)
(* every sequence of vocabulary ids, decode(apply_merges(ids)) equals      *)
(* decode(ids); the result is never longer than the input, strictly        *)
(* shorter when an adjacent pair of the input is a key of bpe_merges, and  *)
(* the input itself when none is.                                          *)
C26_PreservesText ==
    (/\ Returned("apply_merges")
     /\ ntrain >= 1
     /\ Range(arg_ids) \subseteq DOMAIN vocab)
    => /\ decode(vocab, result.val) = decode(vocab, arg_ids)
       /\ Len(result.val) <= Len(arg_ids)
       /\ AdjacentPairs(arg_ids) \cap DOMAIN bpe_merges # {}
              => Len(result.val) < Len(arg_ids)
       /\ AdjacentPairs(arg_ids) \cap DOMAIN bpe_merges = {}
              => result.val = arg_ids

(* the merge table a train call builds on a fresh instance: the ids of a   *)
(* fresh vocabulary are 0..size-1, so each new id is the size              *)
RECURSIVE FreshMerges(_, _, _, _)
FreshMerges(ids, size, target, merges) ==
    LET found == find_freq_pair(ids)
    IN  IF size < target /\ found.kind = "ok"
        THEN FreshMerges(replace_pair(ids, found.val, size).ret, size + 1, target,
                         DictSet(merges, found.val, size))
        ELSE merges

FreshMergesOfCall ==
    FreshMerges(MapChars(Seeded(<<>>).iv, Preprocess(text)), initial_vocab_size,
                vocab_size, EmptyDict)

(* C27: retraining equals fresh training.  When a train call returns, on   *)
(* an instance trained before or not, bpe_merges is the merge table the    *)
(* same call builds on a fresh instance, with no rule of an earlier call,  *)
(* and the vocabulary has the seeded entries and one entry per such rule.  *)
C27_Retrain ==
    TrainReturned =>
        /\ bpe_merges = FreshMergesOfCall
        /\ DOMAIN vocab = 0..(initial_vocab_size + Size(FreshMergesOfCall) - 1)

(* C28: after any sequence of train calls on one instance, every id that   *)
(* encode returns, and that apply_merges returns for vocabulary ids, is a  *)
(* key of vocab, so decoding the result never fails with the               *)
(* unknown-token-id error.                                                 *)
C28_IdsInVocab ==
    (/\ pc = "done"
     /\ ntrain >= 1
     /\ result.kind = "ok"
     /\ \/ op = "encode"
        \/ op = "apply_merges" /\ Range(arg_ids) \subseteq DOMAIN vocab)
    => /\ Range(result.val) \subseteq DOMAIN vocab
       /\ decode(vocab, result.val).kind # "UnknownTokenId"

(* C29: training loop invariant.  At every iteration of the merge loop the *)
(* working id sequence holds only vocabulary ids and the strings of its    *)
(* ids spell the preprocessed corpus; each iteration makes the sequence    *)
(* strictly shorter and adds exactly one vocabulary entry and exactly one  *)
(* new key to bpe_merges.                                                  *)
C29_LoopInvariant ==
    [][/\ (op' = "train" /\ pc' = "loop") =>
              /\ Range(token_ids') \subseteq DOMAIN vocab'
              /\ Spelled(token_ids)' = Preprocess(text')
       /\ (op = "train" /\ pc = "loop" /\ pc' = "loop") =>
              /\ Len(token_ids') < Len(token_ids)
              /\ Size(vocab') = Size(vocab) + 1
              /\ DOMAIN vocab \subseteq DOMAIN vocab'
              /\ Size(bpe_merges') = Size(bpe_merges) + 1
              /\ DOMAIN bpe_merges \subseteq DOMAIN bpe_merges']_vars

(* C30: the disallowed-special-token check has no false positives.  On an  *)
(* instance trained without special tokens, encode without                 *)
(* allowed_specials never fails with the special-token error for a text of *)
(* base-alphabet characters, also when a learned merge token has the shape *)
(* of a special token, and encode of the training corpus succeeds.         *)
C30_NoFalsePositive ==
    (/\ Returned("encode")
     /\ ntrain >= 1
     /\ allowed = {}
     /\ Registered = {}
     /\ \A i \in 1..Len(text) : text[i] \in 0..(BaseSize - 1))
    => result.kind = "ok"

====
